---- MODULE Spec2Model ----
(***************************************************************************)
(* Model of my-app/src/app/TodoList.tsx: a React component holding a       *)
(* cached list of todos and talking to a remote `todos` table.             *)
(*                                                                         *)
(* Every async handler is split at its single `await`: the part before it  *)
(* (dispatch) runs in the turn of the user event, the part after it        *)
(* (the continuation) runs in the turn in which the response is delivered. *)
(* The continuation reads `todos` and `task` from the closure of the       *)
(* render in which the handler was called, so a request carries the        *)
(* values these had at dispatch.  The functional updates of actionLoading  *)
(* (prev => ...) read the current value instead.                           *)
(***************************************************************************)
EXTENDS Integers, Sequences, FiniteSets, TLC

\* ---------------------------------------------------------------- bounds
\* number of requests the component dispatches in one run (mount fetch included)
MaxRequests == 3
\* number of rows in the table before the component mounts
MaxInitRows == 2
\* number of requests dispatched in one run of the specification with fairness
MaxLiveRequests == 2
\* number of requests the store refuses in one run
MaxFailures == 1

\* ---------------------------------------------------------------- inputs
SP == " "
\* drafts the user may type: sequences of characters
Drafts == { <<>>, <<SP, SP>>, <<SP, "a", SP>> }
\* messages a PostgrestError may carry
Msgs == { "", "permission denied" }
Filters == { "all", "active", "completed" }

VARIABLES
  store,          \* rows of the remote table `todos`
  nextId,         \* next id / created_at the table assigns
  todos,          \* useState<Todo[]>([])
  task,           \* useState("")            (the draft)
  loading,        \* useState(false)
  error,          \* useState<string|null>   (<<>> is null, <<m>> is m)
  filter,         \* useState('all')
  actionLoading,  \* useState({})            (<<>> is undefined)
  mounted,        \* the mount effect has run
  inflight,       \* requests dispatched whose continuation has not run
  nextRid,        \* number of the next request
  done            \* history: the requests whose continuation has run

vars == << store, nextId, todos, task, loading, error, filter,
           actionLoading, mounted, inflight, nextRid, done >>

\* ---------------------------------------------------------------- helpers
\* interface Todo
Todo(id, text, complete, created) ==
  [id |-> id, task |-> text, is_complete |-> complete, created_at |-> created]

NoTodo == Todo(0, <<>>, FALSE, 0)

\* is_complete of the rows the table holds before the component mounts
InitComplete(id) == id % 2 = 0

InitRows(n) == { Todo(i, <<"t">>, InitComplete(i), i) : i \in 1..n }

RECURSIVE TrimStart(_)
TrimStart(s) ==
  IF s # <<>> /\ Head(s) = SP THEN TrimStart(Tail(s)) ELSE s

RECURSIVE TrimEnd(_)
TrimEnd(s) ==
  IF s # <<>> /\ s[Len(s)] = SP THEN TrimEnd(SubSeq(s, 1, Len(s) - 1)) ELSE s

\* String.prototype.trim, identity variant used to test the checks
TrimNone(s) == s

\* String.prototype.trim as handleAdd uses it
Trim(s) == TrimEnd(TrimStart(s))

\* .order('created_at') with ascending: true
RECURSIVE SelectAllAscending(_)
SelectAllAscending(rows) ==
  IF rows = {} THEN <<>>
  ELSE LET oldest == CHOOSE r \in rows : \A q \in rows : r.created_at <= q.created_at
       IN  <<oldest>> \o SelectAllAscending(rows \ {oldest})

\* .order('created_at', { ascending: false })
RECURSIVE SelectAll(_)
SelectAll(rows) ==
  IF rows = {} THEN <<>>
  ELSE LET newest == CHOOSE r \in rows : \A q \in rows : q.created_at <= r.created_at
       IN  <<newest>> \o SelectAll(rows \ {newest})

Ids(seq) == { seq[i].id : i \in 1..Len(seq) }

\* the filter predicate with the two tests exchanged
VisibleSwapped(t) ==
  CASE filter = "active"    -> t.is_complete
    [] filter = "completed" -> ~t.is_complete
    [] OTHER                -> TRUE

\* the filter predicate of filteredTodos
Visible(t) ==
  CASE filter = "active"    -> ~t.is_complete
    [] filter = "completed" -> t.is_complete
    [] OTHER                -> TRUE

\* const filteredTodos = todos.filter(...)
filteredTodos == SelectSeq(todos, Visible)

\* the count taken over the visible rows instead of todos
completedCountOfVisible == Len(SelectSeq(filteredTodos, LAMBDA t : t.is_complete))

\* const completedCount = todos.filter(todo => todo.is_complete).length
completedCount == Len(SelectSeq(todos, LAMBDA t : t.is_complete))

\* const activeCount = todos.length - completedCount
activeCount == Len(todos) - completedCount

\* a request: the arguments sent and the closure of the calling render
Request(kind, snapshot, draft, todo) ==
  [rid |-> nextRid, kind |-> kind, phase |-> "sent",
   todos |-> snapshot, task |-> draft, todo |-> todo,
   err |-> <<>>, data |-> <<>>]

Reply(r, err, data) == [r EXCEPT !.phase = "answered", !.err = err, !.data = data]

\* history entry of a request whose continuation runs: the row it was about,
\* the error it returned and the requests still in flight at that moment
Summary(r) ==
  [rid |-> r.rid, kind |-> r.kind, ok |-> r.err = <<>>, err |-> r.err,
   id |-> IF r.kind = "add" /\ r.err = <<>> THEN r.data[1].id ELSE r.todo.id,
   pending |-> { q.rid : q \in inflight \ {r} }]

\* the user acts only after mount (effects are flushed before events are handled)
CanDispatch(max) == mounted /\ nextRid <= max

\* ---------------------------------------------------------------- Init
Init ==
  /\ \E n \in 0..MaxInitRows : store = InitRows(n) /\ nextId = n + 1
  /\ todos = <<>>
  /\ task = <<>>
  /\ loading = FALSE
  /\ error = <<>>
  /\ filter = "all"
  /\ actionLoading = [add |-> <<>>, toggle |-> <<>>, delete |-> <<>>]
  /\ mounted = FALSE
  /\ inflight = {}
  /\ nextRid = 1
  /\ done = {}

\* ---------------------------------------------------------------- dispatch
\* useEffect(() => { fetchTodos() }, []) and fetchTodos up to its await
fetchTodos ==
  /\ ~mounted
  /\ mounted' = TRUE
  /\ loading' = TRUE
  /\ error' = <<>>
  /\ inflight' = inflight \cup { Request("fetch", todos, <<>>, NoTodo) }
  /\ nextRid' = nextRid + 1
  /\ UNCHANGED << store, nextId, todos, task, filter, actionLoading, done >>

\* disabled={actionLoading.add} on the input and on the Add button, never disabled
AddDisabledNever == FALSE

\* disabled={actionLoading.add} on the input and on the Add button
AddDisabled == actionLoading.add = <<TRUE>>

\* onChange={(e) => setTask(e.target.value)}
setTask(d, max) ==
  /\ CanDispatch(max)
  /\ ~AddDisabled
  /\ d # task
  /\ task' = d
  /\ UNCHANGED << store, nextId, todos, loading, error, filter,
                  actionLoading, mounted, inflight, nextRid, done >>

\* onClick={() => setFilter(...)}
setFilter(f, max) ==
  /\ CanDispatch(max)
  /\ f # filter
  /\ filter' = f
  /\ UNCHANGED << store, nextId, todos, task, loading, error,
                  actionLoading, mounted, inflight, nextRid, done >>

\* handleAdd up to its await (Add button or Enter key)
handleAdd(max) ==
  /\ mounted
  /\ ~AddDisabled
  /\ IF Trim(task) = <<>>
     THEN UNCHANGED vars
     ELSE /\ CanDispatch(max)
          /\ error' = <<>>
          /\ actionLoading' = [actionLoading EXCEPT !.add = <<TRUE>>]
          /\ inflight' = inflight \cup
               { Request("add", todos, Trim(task), NoTodo) }
          /\ nextRid' = nextRid + 1
          /\ UNCHANGED << store, nextId, todos, task, loading, filter,
                          mounted, done >>

\* the rows rendered: none while loading, else filteredTodos
Rendered == IF loading THEN {} ELSE { filteredTodos[i] : i \in 1..Len(filteredTodos) }

\* handleToggle without its setError(null)
ErrorKept(e) == e

\* setError(null) of handleToggle
ErrorCleared(e) == <<>>

\* handleToggle(todo) up to its await (checkbox of a rendered row)
handleToggle(todo, max) ==
  /\ CanDispatch(max)
  /\ todo \in Rendered
  /\ actionLoading.toggle # <<todo.id>>
  /\ error' = ErrorCleared(error)
  /\ actionLoading' = [actionLoading EXCEPT !.toggle = <<todo.id>>]
  /\ inflight' = inflight \cup { Request("toggle", todos, <<>>, todo) }
  /\ nextRid' = nextRid + 1
  /\ UNCHANGED << store, nextId, todos, task, loading, filter, mounted, done >>

\* handleDelete(id) up to its await (delete button of a rendered row)
handleDelete(todo, max) ==
  /\ CanDispatch(max)
  /\ todo \in Rendered
  /\ actionLoading.delete # <<todo.id>>
  /\ error' = <<>>
  /\ actionLoading' = [actionLoading EXCEPT !.delete = <<todo.id>>]
  /\ inflight' = inflight \cup { Request("delete", todos, <<>>, todo) }
  /\ nextRid' = nextRid + 1
  /\ UNCHANGED << store, nextId, todos, task, loading, filter, mounted, done >>

\* ---------------------------------------------------------------- the store
Answer(r, err, data) == inflight' = (inflight \ {r}) \cup { Reply(r, err, data) }

ClientUnchanged ==
  UNCHANGED << todos, task, loading, error, filter, actionLoading,
               mounted, nextRid, done >>

\* the requests refused so far
Failures ==
  Cardinality({ r \in inflight : r.err # <<>> }) + Cardinality({ d \in done : ~d.ok })

\* a request is refused: { error } is returned and the table is not changed
StoreFail(r, m) ==
  /\ r.phase = "sent"
  /\ Failures < MaxFailures
  /\ Answer(r, <<m>>, <<>>)
  /\ UNCHANGED << store, nextId >>
  /\ ClientUnchanged

\* supabase.from('todos').select('*').order('created_at', {ascending: false})
StoreSelect(r) ==
  /\ r.phase = "sent" /\ r.kind = "fetch"
  /\ Answer(r, <<>>, SelectAll(store))
  /\ UNCHANGED << store, nextId >>
  /\ ClientUnchanged

\* supabase.from('todos').insert([{ task }]).select().single()
StoreInsert(r) ==
  /\ r.phase = "sent" /\ r.kind = "add"
  /\ LET row == Todo(nextId, r.task, FALSE, nextId)
     IN  /\ store' = store \cup {row}
         /\ Answer(r, <<>>, <<row>>)
  /\ nextId' = nextId + 1
  /\ ClientUnchanged

\* supabase.from('todos').update({ is_complete: !todo.is_complete }).eq('id', todo.id)
StoreUpdate(r) ==
  /\ r.phase = "sent" /\ r.kind = "toggle"
  /\ store' = { IF t.id = r.todo.id
                THEN [t EXCEPT !.is_complete = ~r.todo.is_complete]
                ELSE t : t \in store }
  /\ Answer(r, <<>>, <<>>)
  /\ UNCHANGED nextId
  /\ ClientUnchanged

\* supabase.from('todos').delete().eq('id', id)
StoreDelete(r) ==
  /\ r.phase = "sent" /\ r.kind = "delete"
  /\ store' = { t \in store : t.id # r.todo.id }
  /\ Answer(r, <<>>, <<>>)
  /\ UNCHANGED nextId
  /\ ClientUnchanged

\* ---------------------------------------------------------------- continuations
\* error.message used without its fallback
ErrorTextNoFallback(r, fallback) == r.err

\* error.message || '<fallback>'
ErrorText(r, fallback) == IF r.err[1] = "" THEN <<fallback>> ELSE r.err

Finish(r) ==
  /\ inflight' = inflight \ {r}
  /\ done' = done \cup { Summary(r) }
  /\ UNCHANGED << store, nextId, filter, mounted, nextRid >>

\* fetchTodos: todos after the response
FetchTodos(r) == IF r.err = <<>> THEN r.data ELSE todos

\* fetchTodos after its await
fetchTodosDone(r) ==
  /\ r.phase = "answered" /\ r.kind = "fetch"
  /\ todos' = FetchTodos(r)
  /\ error' = IF r.err = <<>> THEN error ELSE ErrorText(r, "Failed to fetch todos")
  /\ loading' = FALSE
  /\ UNCHANGED << task, actionLoading >>
  /\ Finish(r)

\* handleAdd: the returned row put in front of the todos of the moment
AddTodosOnCurrent(r) == IF r.err = <<>> THEN r.data \o todos ELSE todos

\* handleAdd: todos after the response
AddTodos(r) == IF r.err = <<>> THEN r.data \o r.todos ELSE todos

\* handleAdd after its await
handleAddDone(r) ==
  /\ r.phase = "answered" /\ r.kind = "add"
  /\ todos' = AddTodos(r)
  /\ task' = IF r.err = <<>> THEN <<>> ELSE task
  /\ error' = IF r.err = <<>> THEN error ELSE ErrorText(r, "Failed to add todo")
  /\ actionLoading' = [actionLoading EXCEPT !.add = <<FALSE>>]
  /\ UNCHANGED loading
  /\ Finish(r)

\* todos.map(t => t.id === todo.id ? { ...t, is_complete: !t.is_complete } : t)
Flip(seq, id) ==
  [ i \in 1..Len(seq) |->
      IF seq[i].id = id THEN [seq[i] EXCEPT !.is_complete = ~seq[i].is_complete]
      ELSE seq[i] ]

\* handleToggle: todos after the response
ToggleTodos(r) == IF r.err = <<>> THEN Flip(r.todos, r.todo.id) ELSE todos

\* setActionLoading(prev => ({ ...prev, toggle: undefined })) left out
ClearToggleMissing(al) == al

\* setActionLoading(prev => ({ ...prev, toggle: undefined }))
ClearToggle(al) == [al EXCEPT !.toggle = <<>>]

\* handleToggle after its await
handleToggleDone(r) ==
  /\ r.phase = "answered" /\ r.kind = "toggle"
  /\ todos' = ToggleTodos(r)
  /\ error' = IF r.err = <<>> THEN error ELSE ErrorText(r, "Failed to update todo")
  /\ actionLoading' = ClearToggle(actionLoading)
  /\ UNCHANGED << task, loading >>
  /\ Finish(r)

\* todos.filter(t => t.id !== id)
Without(seq, id) == SelectSeq(seq, LAMBDA t : t.id # id)

\* handleDelete: todos after the response, without `if (error) throw error`
DeleteTodosNoThrow(r) == Without(r.todos, r.todo.id)

\* handleDelete: todos after the response
DeleteTodos(r) == IF r.err = <<>> THEN Without(r.todos, r.todo.id) ELSE todos

\* handleDelete after its await
handleDeleteDone(r) ==
  /\ r.phase = "answered" /\ r.kind = "delete"
  /\ todos' = DeleteTodos(r)
  /\ error' = IF r.err = <<>> THEN error ELSE ErrorText(r, "Failed to delete todo")
  /\ actionLoading' = [actionLoading EXCEPT !.delete = <<>>]
  /\ UNCHANGED << task, loading >>
  /\ Finish(r)

\* ---------------------------------------------------------------- Next
Store ==
  \E r \in inflight :
    \/ \E m \in Msgs : StoreFail(r, m)
    \/ StoreSelect(r)
    \/ StoreInsert(r)
    \/ StoreUpdate(r)
    \/ StoreDelete(r)

Continue ==
  \E r \in inflight :
    \/ fetchTodosDone(r)
    \/ handleAddDone(r)
    \/ handleToggleDone(r)
    \/ handleDeleteDone(r)

\* the events of the user, who dispatches at most max requests in a run
User(max) ==
  \/ \E d \in Drafts : setTask(d, max)
  \/ \E f \in Filters : setFilter(f, max)
  \/ handleAdd(max)
  \/ \E i \in 1..Len(todos) : handleToggle(todos[i], max)
  \/ \E i \in 1..Len(todos) : handleDelete(todos[i], max)

Next ==
  \/ fetchTodos
  \/ User(MaxRequests)
  \/ Store
  \/ Continue

Spec == Init /\ [][Next]_vars

\* the runs with one request more
DeepNext ==
  \/ fetchTodos
  \/ User(MaxRequests + 1)
  \/ Store
  \/ Continue

DeepSpec == Init /\ [][DeepNext]_vars

\* the runs of at most MaxLiveRequests requests
LiveNext ==
  \/ fetchTodos
  \/ User(MaxLiveRequests)
  \/ Store
  \/ Continue

\* the store answers every request and every answer is delivered
FairSpec == Init /\ [][LiveNext]_vars /\ WF_vars(Store) /\ WF_vars(Continue)

\* ---------------------------------------------------------------- properties
InFlight(kind) == { r \in inflight : r.kind = kind }

\* the request whose continuation runs in this step
Resumed(r) == r \in inflight /\ r.phase = "answered" /\ r \notin inflight'

Succeeded(r) == r.err = <<>>

\* requests whose continuation has run, by kind and row
Done(kind) == { d \in done : d.kind = kind }
DoneOn(id) == { d \in done : d.kind \in {"toggle", "delete", "add"} /\ d.id = id }
Overlapped(a, b) == a.rid \in b.pending \/ b.rid \in a.pending

Entry(id) == { todos[i] : i \in { j \in 1..Len(todos) : todos[j].id = id } }

\* C1: every entry of todos is a row that currently exists in the store
TodosSubsetOfStore ==
  \A i \in 1..Len(todos) : \E s \in store : s.id = todos[i].id

\* the effect of a completed request is visible in todos
EffectKept(d) ==
  CASE d.kind = "toggle" ->
         /\ Entry(d.id) # {}
         /\ \A t \in Entry(d.id) : t.is_complete = ~InitComplete(d.id)
    [] d.kind = "delete" -> Entry(d.id) = {}
    [] d.kind = "add"    -> Entry(d.id) # {}
    [] OTHER             -> TRUE

\* C2: after the mount fetch, two actions on different rows that were in
\* flight at the same time and both succeeded have both their effects in
\* todos once both responses have been processed
ConcurrentEffectsKept ==
  \A f, a, b \in done :
    ( /\ inflight = {}
      /\ done = {f, a, b}
      /\ f.kind = "fetch" /\ f.ok /\ f.pending = {}
      /\ a.kind \in {"toggle", "add"} /\ b.kind = "delete"
      /\ a.ok /\ b.ok /\ a.id # b.id
      /\ Overlapped(a, b) )
    => EffectKept(a) /\ EffectKept(b)

\* C3: a successful add prepends the returned row to the todos of the moment
\* its response is processed, and clears the draft
AddPrepends ==
  [][ \A r \in inflight :
        (Resumed(r) /\ r.kind = "add" /\ Succeeded(r))
        => (todos' = r.data \o todos /\ task' = <<>>) ]_vars

\* C4: a failed response leaves todos (and the draft) as they were; only
\* error and the flag of the action change
FailureLeavesTodos ==
  [][ \A r \in inflight :
        (Resumed(r) /\ ~Succeeded(r))
        => /\ todos' = todos
           /\ task' = task
           /\ filter' = filter
           /\ store' = store
           /\ r.kind # "fetch" => loading' = loading
           /\ r.kind = "fetch" => actionLoading' = actionLoading
           /\ r.kind # "add" => actionLoading'.add = actionLoading.add
           /\ r.kind # "toggle" => actionLoading'.toggle = actionLoading.toggle
           /\ r.kind # "delete" => actionLoading'.delete = actionLoading.delete ]_vars

\* a failed delete of a row of todos has been processed
FailureLeavesTodosWitness ==
  \E d \in Done("delete") : ~d.ok /\ Entry(d.id) # {} /\ error # <<>>

Blank(s) == \A i \in 1..Len(s) : s[i] = SP

Trimmed(s) == s # <<>> /\ s[1] # SP /\ s[Len(s)] # SP

\* C5: an add with a blank draft dispatches nothing, and every insert
\* request carries a non-empty trimmed task
BlankAddIsNoOp ==
  /\ [](\A r \in InFlight("add") : Trimmed(r.task))
  /\ [][ Blank(task) =>
           { r.rid : r \in InFlight("add")' } \subseteq { r.rid : r \in InFlight("add") } ]_vars

\* an insert of the trimmed draft is in flight
BlankAddIsNoOpWitness ==
  \E r \in InFlight("add") : r.phase = "sent" /\ task = <<SP, "a", SP>> /\ r.task = <<"a">>

\* C6: at rest, a row that was toggled exactly twice, both times with
\* success, and was the object of no other operation has its original
\* is_complete, in todos and in the store
ToggleTwiceRestores ==
  \A id \in 1..MaxInitRows :
    ( /\ inflight = {}
      /\ Cardinality(DoneOn(id)) = 2
      /\ \A d \in DoneOn(id) : d.kind = "toggle" /\ d.ok )
    => /\ \A t \in Entry(id) : t.is_complete = InitComplete(id)
       /\ \A s \in store : s.id = id => s.is_complete = InitComplete(id)

\* C7: a successful delete of an id that is not in todos when its response
\* is processed leaves todos unchanged
DeleteOfAbsentKeepsTodos ==
  [][ \A r \in inflight :
        (Resumed(r) /\ r.kind = "delete" /\ Succeeded(r) /\ Entry(r.todo.id) = {})
        => todos' = todos ]_vars

\* C8: at most one add request is in flight
SingleAdd == Cardinality(InFlight("add")) <= 1

\* an add is in flight while the user could still dispatch requests
SingleAddWitness ==
  /\ InFlight("add") # {}
  /\ ~Blank(task)
  /\ CanDispatch(MaxRequests)

\* C9: at most one toggle request and at most one delete request is in flight
SingleToggleAndDelete ==
  /\ Cardinality(InFlight("toggle")) <= 1
  /\ Cardinality(InFlight("delete")) <= 1

\* a fetch, and a toggle or delete, have completed and every flag is cleared
LoadingClearedWitness ==
  /\ inflight = {}
  /\ Done("fetch") # {}
  /\ Done("toggle") \cup Done("delete") \cup Done("add") # {}
  /\ ~loading
  /\ actionLoading.toggle = <<>> /\ actionLoading.delete = <<>>
  /\ actionLoading.add # <<TRUE>>

\* C10 (state part): a kind with no request in flight has its flag cleared
FlagsClearedWhenIdle ==
  /\ InFlight("fetch") = {} => loading = FALSE
  /\ InFlight("add") = {} => actionLoading.add # <<TRUE>>
  /\ InFlight("toggle") = {} => actionLoading.toggle = <<>>
  /\ InFlight("delete") = {} => actionLoading.delete = <<>>

\* C10: every loading indicator is cleared on completion; whenever a flag is
\* set it is eventually cleared, and a kind with no request in flight has
\* its flag cleared
LoadingCleared ==
  /\ []FlagsClearedWhenIdle
  /\ loading ~> ~loading
  /\ (actionLoading.add = <<TRUE>>) ~> (actionLoading.add # <<TRUE>>)
  /\ (actionLoading.toggle # <<>>) ~> (actionLoading.toggle = <<>>)
  /\ (actionLoading.delete # <<>>) ~> (actionLoading.delete = <<>>)

\* the text each operation shows when the failure carries no message
FallbackOf(kind) ==
  CASE kind = "fetch"  -> "Failed to fetch todos"
    [] kind = "add"    -> "Failed to add todo"
    [] kind = "toggle" -> "Failed to update todo"
    [] kind = "delete" -> "Failed to delete todo"

\* C11: a failed response sets error to the failure's message, or to the
\* operation's fallback when the message is empty; a successful response
\* leaves error as it was
ErrorIsMessageOrFallback ==
  [][ \A r \in inflight :
        Resumed(r) =>
          IF Succeeded(r) THEN error' = error
          ELSE \E m \in Msgs :
                 /\ r.err = <<m>>
                 /\ error' = IF m = "" THEN <<FallbackOf(r.kind)>> ELSE <<m>> ]_vars

\* a toggle failed without a message and error shows the fallback
ErrorIsMessageOrFallbackWitness ==
  /\ \E d \in Done("toggle") : ~d.ok
  /\ error = <<"Failed to update todo">>

\* the continuation of e ran before the continuation of d
Before(e, d) == d.rid \in e.pending \/ (e.rid \notin d.pending /\ e.rid < d.rid)

\* the continuation of d ran after the most recent dispatch
AfterLastDispatch(d) ==
  \/ d.rid = nextRid - 1
  \/ (nextRid - 1) \in d.pending
  \/ \E q \in done : q.rid = nextRid - 1 /\ d.rid \in q.pending

\* the text a failed request leaves in error
TextOf(d) == IF d.err = <<"">> THEN <<FallbackOf(d.kind)>> ELSE d.err

NewestFirst ==
  \A i, j \in 1..Len(todos) : i < j => todos[i].created_at > todos[j].created_at

\* todos holds an added row in front of the rows of the mount fetch
NewestFirstWitness ==
  /\ Len(todos) >= 3
  /\ \E d \in Done("add") : d.ok /\ todos[1].id = d.id
  /\ \E d \in Done("fetch") : d.ok

\* the positions of todos that satisfy the selected filter
Kept ==
  { i \in 1..Len(todos) :
      \/ filter = "all"
      \/ filter = "active" /\ todos[i].is_complete = FALSE
      \/ filter = "completed" /\ todos[i].is_complete = TRUE }

\* C14: the visible list is exactly the entries of todos that satisfy the
\* filter, in the order of todos
VisibleIsFilteredSubsequence ==
  /\ Len(filteredTodos) = Cardinality(Kept)
  /\ \A i \in Kept : filteredTodos[Cardinality({ j \in Kept : j <= i })] = todos[i]

\* a filter other than 'all' hides one entry of todos and shows another
VisibleIsFilteredSubsequenceWitness ==
  /\ filter # "all"
  /\ Kept # {}
  /\ Cardinality(Kept) < Len(todos)

\* C15: completedCount and activeCount are the numbers of entries of todos
\* with is_complete true and false, and add up to the length of todos
CountsPartitionTodos ==
  /\ completedCount = Cardinality({ i \in 1..Len(todos) : todos[i].is_complete })
  /\ activeCount = Cardinality({ i \in 1..Len(todos) : ~todos[i].is_complete })
  /\ activeCount + completedCount = Len(todos)

\* todos has complete and active entries while only the active are visible
CountsPartitionTodosWitness ==
  /\ filter = "active"
  /\ completedCount > 0
  /\ activeCount > 0

\* C16: while a toggle (delete) request for a row is in flight,
\* actionLoading.toggle (actionLoading.delete) is the id of that row
FlagTracksRowInFlight ==
  /\ \A r \in InFlight("toggle") : actionLoading.toggle = <<r.todo.id>>
  /\ \A r \in InFlight("delete") : actionLoading.delete = <<r.todo.id>>

\* C17: once the mount fetch has been issued, whenever no request is in
\* flight and every request so far has succeeded, todos and the store hold
\* the same ids with the same is_complete
QuiescentConsistency ==
  ( /\ mounted
    /\ inflight = {}
    /\ \A d \in done : d.ok )
  => /\ Ids(todos) = { s.id : s \in store }
     /\ \A i \in 1..Len(todos) :
          \A s \in store : s.id = todos[i].id => s.is_complete = todos[i].is_complete

\* C18: no two entries of todos have the same id
UniqueIds ==
  \A i, j \in 1..Len(todos) : i # j => todos[i].id # todos[j].id

\* an add dispatched while the mount fetch was in flight has put its row in
\* front of the list of its closure, after the fetch delivered its rows
UniqueIdsWitness ==
  /\ todos # <<>>
  /\ \E a \in Done("add"), f \in Done("fetch") :
        a.ok /\ f.ok /\ a.rid \in f.pending /\ todos[1].id = a.id

TypeOK ==
  /\ loading \in BOOLEAN
  /\ mounted \in BOOLEAN
  /\ filter \in Filters
  /\ task \in Drafts
  /\ nextRid \in 1..(MaxRequests + 2)
  /\ Cardinality(inflight) <= MaxRequests + 1

====
